---- MODULE Spec2Model ----
(***************************************************************************)
(* Model of the enrichment core of Ingress: the in-memory expiring cache   *)
(* (src/services/cacheService.js), the company resolver                    *)
(* (src/services/companyEnrichmentService.js) and the IP enrichment        *)
(* pipeline (services/ipEnrichmentService.js, src/unnamed/part_009); and   *)
(* of its callers: the POST /track handler (routes, src/unnamed/part_011), *)
(* the rate limiter (src/middleware/auth.js) and the login service         *)
(* (services/userService.js, src/unnamed/part_007).  Each part has its own *)
(* specification over the shared state: Spec, SpecCache, SpecTrack,        *)
(* SpecLimiter and SpecLogin; SpecClassify, SpecPair, SpecReads and        *)
(* SpecGetOrSet explore the pipeline and the cache over further inputs.    *)
(*                                                                         *)
(* Time is Date.now() in milliseconds.  A request is a Node.js async call: *)
(* it runs atomically up to an await, where other requests, timers and     *)
(* the clock may be interleaved.  The clock advances in steps of 1 h and   *)
(* 23 h, so that an entry is observed before, exactly at and after both    *)
(* the 1 h and the 24 h expiry.  The two JSON datasets are represented by  *)
(* a few records of each kind (isp, hosting, business with and without a   *)
(* company record, two of one domain, education).                          *)
(***************************************************************************)
EXTENDS Integers, FiniteSets, Sequences, TLC

VARIABLES
  now,      \* Date.now()
  cache,    \* cacheService.js: const cache = {}   (key -> {value, expiry, createdAt})
  timers,   \* pending setTimeout callbacks scheduled by cacheService.set
  req,      \* the async calls in flight, one record per request slot
  last,     \* the call that returned in the step just taken (Idle when none did)
  written,  \* cache API specification only: key -> the arguments and time of its latest set
  calls,    \* number of requests started so far (bounds the exploration)
  ticks,    \* number of clock advances so far (bounds the exploration)
  track,    \* POST /track: the request body of the handler awaiting enrichIP in each slot
  saving,   \* POST /track: documents handed to db.collection("visitor_data").add, not yet stored
  visitors, \* the visitor_data collection
  response, \* the HTTP response sent in the step just taken (NoResponse when none was)
  mode,     \* rateLimiter: the middleware its factory returned ("unloaded" before it ran)
  requests, \* rateLimiter: const requests = new Map()   (clientId -> {count, resetTime})
  admitted, \* rateLimiter: the requests passed to next(), with their times (history)
  users,    \* the users collection: email -> document
  logins,   \* authenticateUser calls in flight, one record per slot
  checked   \* email -> wrong passwords compared since the last successful login (history)

vars == <<now, cache, timers, req, last, written, calls, ticks,
          track, saving, visitors, response, mode, requests, admitted,
          users, logins, checked>>

\* the state of the cache and of the enrichment calls
coreVars == <<cache, timers, req, last, written>>
\* the state of the track handler, of the rate limiter and of the login service
trackVars == <<track, saving, visitors>>
limiterVars == <<mode, requests, admitted>>
loginVars == <<users, logins, checked>>

----------------------------------------------------------------------------
(* Bounds of the exploration *)

NumReq == 2          \* request slots (concurrent async calls)
MaxCalls == 2        \* requests handled in one behaviour
MaxTicks == 2        \* clock advances explored
MaxOps == 3          \* cache API calls in one behaviour of the cache API specification
MaxTrackTicks == 1   \* clock advances in one behaviour of the track specification
MAX_REQUESTS == 2    \* rateLimiter: MAX_REQUESTS, scaled down from 100 so the limit is reached
MAX_ENTRIES == 3     \* CACHE_CONFIG.MAX_ENTRIES, scaled down from 10000 so the sweep in set is reached

Req == 1 .. NumReq

----------------------------------------------------------------------------
(* JavaScript values *)

UNDEFINED == [kind |-> "undefined"]
NULL == [kind |-> "null"]

\* !!v for the values that occur here: objects and functions are truthy
Truthy(v) == v # UNDEFINED /\ v # NULL

----------------------------------------------------------------------------
(* Static datasets: data/ip-database.json and data/company-enrichment.json *)

mockIpDatabase ==
  [ip \in {"125.20.250.6", "52.95.110.1", "204.79.197.200", "198.51.100.7",
           "198.51.100.8", "128.143.0.0"} |->
     CASE ip = "125.20.250.6" ->
            [ip |-> ip, asn |-> "AS9498", as_name |-> "Bharti Airtel",
             as_domain |-> "airtel.com", type |-> "isp"]
       [] ip = "52.95.110.1" ->
            [ip |-> ip, asn |-> "AS16509", as_name |-> "Amazon",
             as_domain |-> "amazon.com", type |-> "hosting"]
       [] ip = "204.79.197.200" ->
            [ip |-> ip, asn |-> "AS8068", as_name |-> "Microsoft Corporation",
             as_domain |-> "microsoft.com", type |-> "business"]
       [] ip = "198.51.100.7" ->
            [ip |-> ip, asn |-> "AS64500", as_name |-> "Initech",
             as_domain |-> "initech.example", type |-> "business"]
       [] ip = "198.51.100.8" ->
            [ip |-> ip, asn |-> "AS64500", as_name |-> "Initech Labs",
             as_domain |-> "initech.example", type |-> "business"]
       [] ip = "128.143.0.0" ->
            [ip |-> ip, asn |-> "AS225", as_name |-> "University of Virginia",
             as_domain |-> "virginia.edu", type |-> "education"]]

mockEnrichmentData ==
  [d \in {"microsoft.com", "google.com"} |->
     IF d = "microsoft.com"
       THEN [company_name |-> "Microsoft Corporation", domain |-> d, employees |-> 221000,
             industry |-> "Software", headquarters |-> "Redmond", revenue |-> "$211B",
             website |-> "https://www.microsoft.com", enrichment_source |-> "dataset"]
       ELSE [company_name |-> "Google LLC", domain |-> d, employees |-> 182000,
             industry |-> "Internet", headquarters |-> "Mountain View", revenue |-> "$307B",
             website |-> "https://www.google.com", enrichment_source |-> "dataset"]]

\* property names every object inherits from Object.prototype (one representative)
ObjectPrototype == {"constructor"}

Inherited(name) == [kind |-> "function", name |-> name]

\* the inputs of the exploration: an IP of each listed type, business with and without
\* a company record, and an IP absent from the dataset
IPs == {"125.20.250.6", "52.95.110.1", "204.79.197.200", "198.51.100.7", "1.2.3.4"}
Domains == DOMAIN mockEnrichmentData \cup {"initech.example"} \cup ObjectPrototype

\* mockIpDatabase[ipAddress] || null
LookupIp(ip) ==
  IF ip \in DOMAIN mockIpDatabase THEN mockIpDatabase[ip] ELSE NULL

\* mockEnrichmentData[domain] || null   (own property, else the prototype chain)
LookupCompany(domain) ==
  IF domain \in DOMAIN mockEnrichmentData THEN mockEnrichmentData[domain]
  ELSE IF domain \in ObjectPrototype THEN Inherited(domain)
  ELSE NULL

---------------------------------------------------------------------------------------------------------------------------------------------------
(* cacheService *)

\* mutant: the cache key does not depend on the IP
IpKey_OneKey(ip) == <<"ip_enrichment_", "">>

\* `ip_enrichment_${ipAddress}`
IpKey(ip) == <<"ip_enrichment_", ip>>
\* mutant: the cache key does not depend on the domain
CompanyKey_OneKey(domain) == <<"company_enrichment_", "">>

\* `company_enrichment_${domain}`
CompanyKey(domain) == <<"company_enrichment_", domain>>

HOUR_MS == 60 * 60 * 1000

Without(c, k) == [x \in DOMAIN c \ {k} |-> c[x]]

\* mutant: an entry counts as expired at its expiry time already
CacheGetValue_Eager(c, k, t) ==
  IF k \notin DOMAIN c THEN UNDEFINED
  ELSE IF t >= c[k].expiry THEN UNDEFINED
  ELSE c[k].value

\* get: the value returned
CacheGetValue(c, k, t) ==
  IF k \notin DOMAIN c THEN UNDEFINED
  ELSE IF t > c[k].expiry THEN UNDEFINED
  ELSE c[k].value

\* mutant: reading a live entry renews its expiry
CacheAfterGet_Sliding(c, k, t) ==
  IF k \in DOMAIN c /\ t > c[k].expiry THEN Without(c, k)
  ELSE IF k \in DOMAIN c THEN [c EXCEPT ![k].expiry = t + HOUR_MS]
  ELSE c

\* get: the cache it leaves (an expired entry is deleted)
CacheAfterGet(c, k, t) ==
  IF k \in DOMAIN c /\ t > c[k].expiry THEN Without(c, k) ELSE c

\* mutant: an entry counts as expired at its expiry time already
CacheHas_Eager(c, k, t) ==
  IF k \notin DOMAIN c THEN FALSE
  ELSE IF t >= c[k].expiry THEN FALSE
  ELSE TRUE

\* has: the boolean returned; it leaves the cache as get does
CacheHas(c, k, t) ==
  IF k \notin DOMAIN c THEN FALSE
  ELSE IF t > c[k].expiry THEN FALSE
  ELSE TRUE

\* mutant: has on an expired entry sweeps every expired entry
CacheAfterHas_Sweep(c, k, t) ==
  IF k \in DOMAIN c /\ t > c[k].expiry
    THEN [x \in {y \in DOMAIN c : ~(t > c[y].expiry)} |-> c[x]]
    ELSE c

\* has: the cache it leaves (an expired entry is deleted)
CacheAfterHas(c, k, t) ==
  IF k \in DOMAIN c /\ t > c[k].expiry THEN Without(c, k) ELSE c

\* mutant: the sweep evicts live entries too
CleanupExpired_All(c, t) == [x \in {} |-> c[x]]

\* cleanupExpired
CleanupExpired(c, t) ==
  [x \in {y \in DOMAIN c : ~(t > c[y].expiry)} |-> c[x]]

\* mutant: the expiry is the TTL alone, the current time is not added
CacheSet_NoNow(c, k, v, ttlSeconds, t) ==
  LET c1 == IF Cardinality(DOMAIN c) >= MAX_ENTRIES THEN CleanupExpired(c, t) ELSE c
      entry == [value |-> v, expiry |-> ttlSeconds * 1000, createdAt |-> t]
  IN [x \in DOMAIN c1 \cup {k} |-> IF x = k THEN entry ELSE c1[x]]

\* set: the cache it leaves
CacheSet(c, k, v, ttlSeconds, t) ==
  LET c1 == IF Cardinality(DOMAIN c) >= MAX_ENTRIES THEN CleanupExpired(c, t) ELSE c
      entry == [value |-> v, expiry |-> t + ttlSeconds * 1000, createdAt |-> t]
  IN [x \in DOMAIN c1 \cup {k} |-> IF x = k THEN entry ELSE c1[x]]

\* set: the deferred deletion callback it schedules
TimerOf(k, ttlSeconds, t) == [key |-> k, due |-> t + ttlSeconds * 1000]

\* mutant: the callback deletes whatever entry it finds under its key
TimerCallback_Blind(c, k, t) ==
  IF k \in DOMAIN c THEN Without(c, k) ELSE c

\* the setTimeout callback of set
TimerCallback(c, k, t) ==
  IF k \in DOMAIN c /\ t > c[k].expiry THEN Without(c, k) ELSE c

\* delete: the boolean returned
CacheDelete(c, k) == k \in DOMAIN c

EmptyCache == [x \in {} |-> NULL]

\* mutant: an entry at its expiry time is counted neither as active nor as expired
GetStats_Eager(c, t) ==
  [totalEntries |-> Cardinality(DOMAIN c),
   activeEntries |-> Cardinality({k \in DOMAIN c : t < c[k].expiry}),
   expiredEntries |-> Cardinality({k \in DOMAIN c : t > c[k].expiry})]

\* getStats: the counters of the snapshot
GetStats(c, t) ==
  [totalEntries |-> Cardinality(DOMAIN c),
   activeEntries |-> Cardinality({k \in DOMAIN c : t <= c[k].expiry}),
   expiredEntries |-> Cardinality({k \in DOMAIN c : t > c[k].expiry})]

\* String(n).length for an integer n
RECURSIVE DecimalLength(_)
DecimalLength(n) ==
  IF n < 0 THEN 1 + DecimalLength(0 - n)
  ELSE IF n < 10 THEN 1
  ELSE 1 + DecimalLength(n \div 10)

\* JSON.stringify(value).length for null and for a filtered result
JsonLength(v) ==
  IF v = NULL THEN 4
  ELSE Len("{\"status\":\"") + Len(v.status) + Len("\",\"reason\":\"") + Len(v.reason)
         + Len("\"}")

\* the length of an ISO 8601 timestamp: YYYY-MM-DDTHH:mm:ss.sssZ
ISO_LENGTH == 24

\* JSON.stringify of one property of the cache object: "key":{"value":..,"expiry":..,"createdAt":".."}
EntryJsonLength(k, item) ==
  1 + Len(k[1]) + Len(k[2]) + 1 + Len(":{\"value\":") + JsonLength(item.value)
    + Len(",\"expiry\":") + DecimalLength(item.expiry)
    + Len(",\"createdAt\":\"") + ISO_LENGTH + Len("\"}")

\* JSON.stringify(cache).length : the braces, the properties and the commas between them
RECURSIVE JsonCacheLength(_, _)
JsonCacheLength(c, keys) ==
  IF keys = {} THEN 2
  ELSE LET k == CHOOSE x \in keys : TRUE
       IN EntryJsonLength(k, c[k]) + (IF keys = {k} THEN 0 ELSE 1)
            + JsonCacheLength(c, keys \ {k})

\* getStats: the snapshot returned (the entries array as the set of its elements; there
\* is one per key)
Snapshot(c, t) ==
  [totalEntries |-> GetStats(c, t).totalEntries,
   activeEntries |-> GetStats(c, t).activeEntries,
   expiredEntries |-> GetStats(c, t).expiredEntries,
   memoryUsage |-> JsonCacheLength(c, DOMAIN c),
   entries |-> {[key |-> k, expired |-> t > c[k].expiry, createdAt |-> c[k].createdAt,
                 expiresAt |-> c[k].expiry] : k \in DOMAIN c}]

----------------------------------------------------------------------------
(* CompanyEnrichmentService *)

NULL_TTL == 60 * 60            \* seconds, "no data" sentinel
COMPANY_TTL == 24 * 60 * 60    \* seconds, dataset profile

\* mutant: the null sentinel is taken for a miss
IsCompanyCacheHit_Truthy(cachedData) == Truthy(cachedData)

\* cachedData !== undefined
IsCompanyCacheHit(cachedData) == cachedData # UNDEFINED

\* mutant: the offset of the estimate is forgotten
EmployeeEstimates_NoOffset == {0, 5000 - 1}

\* Math.floor(Math.random() * 5000) + 100 : the ends of the range
EmployeeEstimates == {100, 5000 + 100 - 1}

\* mutant: the synthesized profile is not marked as a fallback
generateFallbackData_Unmarked(domain, companyName, employees) ==
  [company_name |-> companyName, domain |-> domain, employees |-> employees,
   industry |-> "Technology", headquarters |-> "Unknown", revenue |-> "N/A",
   website |-> <<"https://www.", domain>>, enrichment_source |-> "dataset"]

generateFallbackData(domain, companyName, employees) ==
  [company_name |-> companyName, domain |-> domain, employees |-> employees,
   industry |-> "Technology", headquarters |-> "Unknown", revenue |-> "N/A",
   website |-> <<"https://www.", domain>>, enrichment_source |-> "fallback"]

----------------------------------------------------------------------------
(* IPEnrichmentService *)

\* mutant: filtered verdicts are cached as long as successes
FILTERED_TTL_Long == 24 * 60 * 60

FILTERED_TTL == 60 * 60        \* seconds
SUCCESS_TTL == 24 * 60 * 60    \* seconds

\* mutant: hosting providers are not filtered
IsFilteredType_IspOnly(type) == type = "isp"

\* ipinfoResult.type === "isp" || ipinfoResult.type === "hosting"
IsFilteredType(type) == type = "isp" \/ type = "hosting"

NoDataResult == [status |-> "filtered", reason |-> "No data found for this IP."]
IspResult == [status |-> "filtered", reason |-> "ISP or Hosting"]
SuccessResult(ipinfo, zoom) ==
  [status |-> "success",
   data |-> [ip |-> ipinfo.ip, asn |-> ipinfo.asn, as_name |-> ipinfo.as_name,
             as_domain |-> ipinfo.as_domain, type |-> ipinfo.type,
             zoominfo_data |-> zoom]]

----------------------------------------------------------------------------
(* Request slots *)

\* hit: served from the cache entry of its own key; looked: the company dataset was
\* consulted; repeat: started right after an enrichIP call for the same IP returned
Idle == [pc |-> "idle", op |-> "none", ip |-> "", domain |-> "", key |-> <<>>,
         zoom |-> UNDEFINED, result |-> UNDEFINED,
         hit |-> FALSE, looked |-> FALSE, repeat |-> FALSE]

\* a new call takes the first free slot
Free(r) ==
  /\ calls < MaxCalls
  /\ req[r].pc = "idle"
  /\ \A q \in Req : q < r => req[q].pc # "idle"

\* the call in slot r returns: the slot is free again
Return(r, call) ==
  /\ req' = [req EXCEPT ![r] = Idle]
  /\ last' = [call EXCEPT !.pc = "done", !.zoom = UNDEFINED]

\* no track request in the slot, no response sent, no login call in the slot
NoBody == [kind |-> "none"]
NoResponse == [status |-> 0]
NoLogin == [pc |-> "idle"]

\* the accounts of the exploration and the document createUser stores for one
Accounts == {"ada@consultadd.com"}
NewUser == [isActive |-> TRUE, loginAttempts |-> 0]

Init ==
  /\ now = 0
  /\ cache = EmptyCache
  /\ timers = {}
  /\ req = [r \in Req |-> Idle]
  /\ last = Idle
  /\ written = EmptyCache
  /\ calls = 0
  /\ ticks = 0
  /\ track = [r \in Req |-> NoBody]
  /\ saving = {}
  /\ visitors = {}
  /\ response = NoResponse
  /\ mode = "unloaded"
  /\ requests = [c \in {} |-> NULL]
  /\ admitted = {}
  /\ users = [e \in Accounts |-> NewUser]
  /\ logins = [r \in Req |-> NoLogin]
  /\ checked = [e \in Accounts |-> 0]

\* the clock advances; a callback that is due runs before the clock advances again
TickSteps == {HOUR_MS, 23 * HOUR_MS}

Tick(d) ==
  /\ ticks < MaxTicks
  /\ \A t \in timers : now < t.due
  /\ now' = now + d
  /\ ticks' = ticks + 1
  /\ last' = Idle
  /\ UNCHANGED <<cache, timers, req, written, calls>>

\* enrichIP(ipAddress) up to its return or its await of enrichCompanyData,
\* which itself runs up to its return (cache hit) or its await of the latency timer
EnrichIPStart(r, ip) ==
  /\ Free(r)
  /\ calls' = calls + 1
  /\ LET key == IpKey(ip)
         cachedResult == CacheGetValue(cache, key, now)
         c1 == CacheAfterGet(cache, key, now)
         ipinfoResult == LookupIp(ip)
         call == [Idle EXCEPT !.op = "enrichIP", !.ip = ip, !.key = key,
                              !.repeat = (last.op = "enrichIP" /\ last.ip = ip)]
     IN IF Truthy(cachedResult)
          THEN /\ cache' = c1
               /\ timers' = timers
               /\ Return(r, [call EXCEPT !.result = cachedResult, !.hit = TRUE])
        ELSE IF ~Truthy(ipinfoResult)
          THEN /\ cache' = CacheSet(c1, key, NoDataResult, FILTERED_TTL, now)
               /\ timers' = timers \cup {TimerOf(key, FILTERED_TTL, now)}
               /\ Return(r, [call EXCEPT !.result = NoDataResult])
        ELSE IF IsFilteredType(ipinfoResult.type)
          THEN /\ cache' = CacheSet(c1, key, IspResult, FILTERED_TTL, now)
               /\ timers' = timers \cup {TimerOf(key, FILTERED_TTL, now)}
               /\ Return(r, [call EXCEPT !.result = IspResult])
        ELSE LET domain == ipinfoResult.as_domain
                 ckey == CompanyKey(domain)
                 cachedData == CacheGetValue(c1, ckey, now)
             IN /\ cache' = CacheAfterGet(c1, ckey, now)
                /\ timers' = timers
                /\ last' = Idle
                /\ req' = [req EXCEPT ![r] =
                     IF IsCompanyCacheHit(cachedData)
                       THEN [call EXCEPT !.pc = "resume", !.domain = domain,
                                         !.zoom = cachedData]
                       ELSE [call EXCEPT !.pc = "latency", !.domain = domain]]
  /\ UNCHANGED <<now, written, ticks>>

\* GET /company/:domain : enrichCompanyData(domain) up to its return or its await
CompanyStart(r, domain) ==
  /\ Free(r)
  /\ calls' = calls + 1
  /\ LET ckey == CompanyKey(domain)
         cachedData == CacheGetValue(cache, ckey, now)
         call == [Idle EXCEPT !.op = "enrichCompanyData", !.domain = domain, !.key = ckey]
     IN /\ cache' = CacheAfterGet(cache, ckey, now)
        /\ IF IsCompanyCacheHit(cachedData)
             THEN Return(r, [call EXCEPT !.result = cachedData, !.hit = TRUE])
             ELSE /\ req' = [req EXCEPT ![r] = [call EXCEPT !.pc = "latency"]]
                  /\ last' = Idle
  /\ UNCHANGED <<now, timers, written, ticks>>

\* enrichCompanyData after the simulated latency: dataset lookup, cache write, return
CompanyResume(r) ==
  /\ req[r].pc = "latency"
  /\ LET domain == req[r].domain
         ckey == CompanyKey(domain)
         enrichedData == LookupCompany(domain)
         ttl == IF ~Truthy(enrichedData) THEN NULL_TTL ELSE COMPANY_TTL
         ret == IF ~Truthy(enrichedData) THEN NULL ELSE enrichedData
     IN /\ cache' = CacheSet(cache, ckey, ret, ttl, now)
        /\ timers' = timers \cup {TimerOf(ckey, ttl, now)}
        /\ IF req[r].op = "enrichIP"
             THEN /\ req' = [req EXCEPT ![r] =
                              [@ EXCEPT !.pc = "resume", !.zoom = ret, !.looked = TRUE]]
                  /\ last' = Idle
             ELSE Return(r, [req[r] EXCEPT !.result = ret, !.looked = TRUE])
  /\ UNCHANGED <<now, written, calls, ticks>>

\* what enrichIP returns after its await of enrichCompanyData, for an outcome of Math.random
EnrichIPResult(call, employees) ==
  LET ipinfoResult == LookupIp(call.ip)
      zoomInfoData == IF ~Truthy(call.zoom)
                        THEN generateFallbackData(ipinfoResult.as_domain,
                                                  ipinfoResult.as_name, employees)
                        ELSE call.zoom
  IN SuccessResult(ipinfoResult, zoomInfoData)

\* enrichIP after its await of enrichCompanyData: fallback, result, cache write, return
EnrichIPResume(r) ==
  /\ req[r].pc = "resume"
  /\ \E employees \in EmployeeEstimates :
       LET key == IpKey(req[r].ip)
           result == EnrichIPResult(req[r], employees)
       IN /\ cache' = CacheSet(cache, key, result, SUCCESS_TTL, now)
          /\ timers' = timers \cup {TimerOf(key, SUCCESS_TTL, now)}
          /\ Return(r, [req[r] EXCEPT !.result = result])
  /\ UNCHANGED <<now, written, calls, ticks>>

\* mutant: clear removes the expired entries only
Clear_ExpiredOnly ==
  /\ calls < MaxCalls
  /\ calls' = calls + 1
  /\ cache' = [x \in {y \in DOMAIN cache : ~(now > cache[y].expiry)} |-> cache[x]]
  /\ last' = [Idle EXCEPT !.pc = "done", !.op = "clear"]
  /\ UNCHANGED <<now, timers, req, written, ticks>>

\* DELETE /cache/clear : cacheService.clear()
Clear ==
  /\ calls < MaxCalls
  /\ calls' = calls + 1
  /\ cache' = EmptyCache
  /\ last' = [Idle EXCEPT !.pc = "done", !.op = "clear"]
  /\ UNCHANGED <<now, timers, req, written, ticks>>

\* a deferred deletion callback fires, no earlier than its delay
TimerFire(t) ==
  /\ t \in timers
  /\ now >= t.due
  /\ cache' = TimerCallback(cache, t.key, now)
  /\ timers' = timers \ {t}
  /\ last' = [Idle EXCEPT !.pc = "done", !.op = "callback", !.key = t.key]
  /\ UNCHANGED <<now, req, written, calls, ticks>>

\* the enrichment services and the cache routes leave the rest of the application alone
Aside == UNCHANGED <<trackVars, response, limiterVars, loginVars>>

Next ==
  \/ \E d \in TickSteps : Tick(d) /\ Aside
  \/ \E r \in Req, ip \in IPs : EnrichIPStart(r, ip) /\ Aside
  \/ \E r \in Req, domain \in Domains : CompanyStart(r, domain) /\ Aside
  \/ \E r \in Req : CompanyResume(r) /\ Aside
  \/ \E r \in Req : EnrichIPResume(r) /\ Aside
  \/ Clear /\ Aside
  \/ \E t \in timers : TimerFire(t) /\ Aside

Spec == Init /\ [][Next]_vars

----------------------------------------------------------------------------
(* The cache API on its own: cacheService called directly, with any key, value and TTL *)

DEFAULT_TTL == 24 * 60 * 60    \* seconds

ApiKeys == {IpKey("1.2.3.4"), CompanyKey("initech.example")}
ApiValues == {NULL, IspResult}
ApiTtls == {0 - 60 * 60, 0, 60 * 60, DEFAULT_TTL}

BoolValue(b) == [kind |-> "boolean", b |-> b]

\* a synchronous cache call and what it returned
ApiCall(op, k, result) ==
  [Idle EXCEPT !.pc = "done", !.op = op, !.key = k, !.result = result]

ApiStep ==
  /\ calls < MaxOps
  /\ calls' = calls + 1
  /\ UNCHANGED <<now, req, ticks>>

\* cacheService.set(key, value, ttlSeconds)
ApiSet(k, v, ttlSeconds) ==
  /\ ApiStep
  /\ cache' = CacheSet(cache, k, v, ttlSeconds, now)
  /\ timers' = timers \cup {TimerOf(k, ttlSeconds, now)}
  /\ written' = [x \in DOMAIN written \cup {k} |->
                   IF x = k THEN [value |-> v, at |-> now, ttl |-> ttlSeconds]
                   ELSE written[x]]
  /\ last' = ApiCall("set", k, UNDEFINED)

\* cacheService.get(key)
ApiGet(k) ==
  /\ ApiStep
  /\ cache' = CacheAfterGet(cache, k, now)
  /\ last' = ApiCall("get", k, CacheGetValue(cache, k, now))
  /\ UNCHANGED <<timers, written>>

\* cacheService.has(key)
ApiHas(k) ==
  /\ ApiStep
  /\ cache' = CacheAfterHas(cache, k, now)
  /\ last' = ApiCall("has", k, BoolValue(CacheHas(cache, k, now)))
  /\ UNCHANGED <<timers, written>>

\* cacheService.delete(key)
ApiDelete(k) ==
  /\ ApiStep
  /\ cache' = IF CacheDelete(cache, k) THEN Without(cache, k) ELSE cache
  /\ written' = Without(written, k)
  /\ last' = ApiCall("delete", k, BoolValue(CacheDelete(cache, k)))
  /\ UNCHANGED timers

\* cacheService.clear() : it has no return statement
ApiClear ==
  /\ ApiStep
  /\ cache' = EmptyCache
  /\ written' = EmptyCache
  /\ last' = ApiCall("clear", <<>>, UNDEFINED)
  /\ UNCHANGED timers

\* mutant: getStats evicts the expired entries it has counted
ApiGetStats_Evict ==
  /\ ApiStep
  /\ cache' = CleanupExpired(cache, now)
  /\ last' = [ApiCall("getStats", <<>>, Snapshot(cache, now)) EXCEPT
                !.repeat = (last.op = "getStats")]
  /\ UNCHANGED <<timers, written>>

\* GET /cache/stats : cacheService.getStats()   (repeat: right after another getStats)
ApiGetStats ==
  /\ ApiStep
  /\ last' = [ApiCall("getStats", <<>>, Snapshot(cache, now)) EXCEPT
                !.repeat = (last.op = "getStats")]
  /\ UNCHANGED <<cache, timers, written>>

NextCache ==
  \/ \E d \in TickSteps : Tick(d) /\ Aside
  \/ \E k \in ApiKeys, v \in ApiValues, ttlSeconds \in ApiTtls :
       ApiSet(k, v, ttlSeconds) /\ Aside
  \/ \E k \in ApiKeys : ApiGet(k) /\ Aside
  \/ \E k \in ApiKeys : ApiHas(k) /\ Aside
  \/ \E k \in ApiKeys : ApiDelete(k) /\ Aside
  \/ ApiClear /\ Aside
  \/ ApiGetStats /\ Aside
  \/ \E t \in timers : TimerFire(t) /\ Aside

SpecCache == Init /\ [][NextCache]_vars

----------------------------------------------------------------------------
(* Properties of the enrichment pipeline *)

\* an enrichIP call has just returned
EnrichIPReturned == last.op = "enrichIP"

\* C1: for every IP that is not a key of the IP dataset, in every reachable cache state,
\* enrichIP returns the filtered result with reason "No data found for this IP." and
\* never a success result.
C1_AbsentIpFiltered ==
  (EnrichIPReturned /\ last.ip \notin DOMAIN mockIpDatabase) =>
     /\ last.result.status = "filtered"
     /\ last.result.reason = "No data found for this IP."
     /\ last.result.status # "success"

\* an absent IP is answered from its cached verdict at the very end of the verdict's hour
C1_Witness ==
  /\ EnrichIPReturned
  /\ last.ip = "1.2.3.4"
  /\ last.hit
  /\ last.result.reason = "No data found for this IP."
  /\ cache[last.key].expiry = now
  /\ now > 0

\* C2: for every IP whose dataset record has type isp or hosting, in every reachable
\* cache state, enrichIP returns the filtered result with reason "ISP or Hosting".
C2_IspHostingFiltered ==
  (/\ EnrichIPReturned
   /\ last.ip \in DOMAIN mockIpDatabase
   /\ mockIpDatabase[last.ip].type \in {"isp", "hosting"}) =>
     /\ last.result.status = "filtered"
     /\ last.result.reason = "ISP or Hosting"

\* a hosting IP is filtered while the cache holds entries of other keys
C2_Witness ==
  /\ EnrichIPReturned
  /\ last.ip = "52.95.110.1"
  /\ last.result.reason = "ISP or Hosting"
  /\ Cardinality(DOMAIN cache) >= 2

\* C3: for every IP whose dataset record has type business, enrichIP returns a success
\* result carrying the IP record and a company profile: the company dataset's record when
\* the record's domain is a key of the company dataset, and a synthesized profile with
\* enrichment_source = fallback (named after the IP record) when it is not.
C3_BusinessSuccess ==
  (/\ EnrichIPReturned
   /\ last.ip \in DOMAIN mockIpDatabase
   /\ mockIpDatabase[last.ip].type = "business") =>
     LET rec == mockIpDatabase[last.ip]
         data == last.result.data
     IN /\ last.result.status = "success"
        /\ data.ip = rec.ip /\ data.asn = rec.asn /\ data.as_name = rec.as_name
        /\ data.as_domain = rec.as_domain /\ data.type = rec.type
        /\ IF rec.as_domain \in DOMAIN mockEnrichmentData
             THEN /\ data.zoominfo_data = mockEnrichmentData[rec.as_domain]
                  /\ data.zoominfo_data.enrichment_source # "fallback"
             ELSE /\ data.zoominfo_data.enrichment_source = "fallback"
                  /\ data.zoominfo_data.company_name = rec.as_name
                  /\ data.zoominfo_data.domain = rec.as_domain

\* a business IP of a domain without company record gets a fallback profile
C3_Witness ==
  /\ EnrichIPReturned
  /\ last.ip = "198.51.100.7"
  /\ ~last.hit
  /\ last.result.status = "success"
  /\ last.result.data.zoominfo_data.enrichment_source = "fallback"

\* C4: two enrichIP calls for the same IP in immediate succession return identical
\* results, and the second is served from the cache: it leaves the cache as it is, so
\* getStats().activeEntries is the same before and after it.
C4_Idempotent ==
  [][\A r \in Req :
       (EnrichIPReturned /\ EnrichIPStart(r, last.ip)) =>
          /\ last'.op = "enrichIP"
          /\ last'.hit
          /\ last'.result = last.result
          /\ cache' = cache
          /\ GetStats(cache', now').activeEntries = GetStats(cache, now).activeEntries]_vars

\* the second of two successive calls for a business IP with a synthesized profile
C4_Witness ==
  /\ EnrichIPReturned
  /\ last.repeat
  /\ last.hit
  /\ last.ip = "198.51.100.7"
  /\ last.result.data.zoominfo_data.enrichment_source = "fallback"

\* the entry of an IP key is live: now <= expiry
LiveIpEntry(ip) ==
  /\ IpKey(ip) \in DOMAIN cache
  /\ now <= cache[IpKey(ip)].expiry

\* C6 (as claimed): once a result is stored for an IP, until the entry expires or is
\* cleared every enrichIP return for that IP carries the stored value and the entry's
\* value and expiry are not replaced, also with concurrent requests for the same IP.
C6_NoUpdateInPlace ==
  [][\A ip \in IPs :
       (LiveIpEntry(ip) /\ ~Clear) =>
          /\ IpKey(ip) \in DOMAIN cache'
          /\ cache'[IpKey(ip)].value = cache[IpKey(ip)].value
          /\ cache'[IpKey(ip)].expiry = cache[IpKey(ip)].expiry
          /\ (last'.op = "enrichIP" /\ last'.ip = ip) =>
                last'.result = cache[IpKey(ip)].value]_vars

\* C6 (amended): until the entry expires or is cleared, every enrichIP call that starts
\* while it is live returns the stored value and writes nothing, and the entry is
\* replaced only by the cache write of an enrichIP request for the same IP that had
\* missed the cache earlier and was suspended at the company-resolver await.
C6_ReplacedOnlyByInFlight ==
  [][\A ip \in IPs :
       (LiveIpEntry(ip) /\ ~Clear) =>
          /\ IpKey(ip) \in DOMAIN cache'
          /\ (cache'[IpKey(ip)] # cache[IpKey(ip)]) =>
                \E r \in Req : /\ req[r].op = "enrichIP" /\ req[r].ip = ip
                               /\ req[r].pc = "resume" /\ req'[r].pc = "idle"
          /\ \A r \in Req :
                EnrichIPStart(r, ip) =>
                   /\ last'.hit
                   /\ last'.result = cache[IpKey(ip)].value
                   /\ cache' = cache]_vars

\* a request that was suspended while another one stored the result has written its own:
\* the callback scheduled with the earlier entry is still pending and due before the
\* expiry of the entry that replaced it
C6_Witness ==
  /\ EnrichIPReturned
  /\ ~last.hit
  /\ last.result.status = "success"
  /\ \E t \in timers : /\ t.key = last.key
                       /\ t.due > now
                       /\ t.due < cache[last.key].expiry

\* lifetime in milliseconds that the claim gives to a cached enrichIP result
VerdictLifeMs(result) == IF result.status = "filtered" THEN 3600000 ELSE 86400000

\* C7: every filtered result is cached under the IP's key for 1 hour and every success
\* result for 24 hours: an enrichIP call finding an entry written at s is served from it
\* up to s + 1h (filtered) or s + 24h (success), and after that it recomputes.
C7_TtlByVerdict ==
  /\ [](EnrichIPReturned /\ ~last.hit =>
          /\ last.key \in DOMAIN cache
          /\ cache[last.key].value = last.result
          /\ cache[last.key].createdAt = now
          /\ cache[last.key].expiry = now + VerdictLifeMs(last.result))
  /\ [][\A r \in Req, ip \in IPs :
          (EnrichIPStart(r, ip) /\ IpKey(ip) \in DOMAIN cache) =>
             LET e == cache[IpKey(ip)]
             IN IF now <= e.createdAt + VerdictLifeMs(e.value)
                  THEN last'.hit /\ last'.result = e.value
                  ELSE /\ ~last'.hit
                       /\ (e.value.status = "filtered") =>
                             /\ last'.op = "enrichIP"
                             /\ cache'[IpKey(ip)].createdAt = now]_vars

\* a filtered verdict is recomputed by a call after its hour: the callback scheduled
\* with the first verdict is overdue and not yet run
C7_Witness ==
  /\ EnrichIPReturned
  /\ ~last.hit
  /\ last.result.status = "filtered"
  /\ \E t \in timers : t.key = last.key /\ t.due < now

\* the resolver finds no record for the domain, neither own nor inherited
NoCompanyRecord(domain) ==
  domain \notin DOMAIN mockEnrichmentData /\ domain \notin ObjectPrototype

\* the "no data" sentinel stored for the domain is within its hour
LiveSentinel(domain) ==
  /\ CompanyKey(domain) \in DOMAIN cache
  /\ cache[CompanyKey(domain)].value = NULL
  /\ now <= cache[CompanyKey(domain)].createdAt + 3600000

C9_DatasetProfile ==
  /\ []((last.op = "enrichCompanyData" /\ last.domain \in DOMAIN mockEnrichmentData) =>
          /\ last.result = mockEnrichmentData[last.domain]
          /\ last.result.domain = last.domain)
  /\ [](\A r \in Req :
          (req[r].pc = "resume" /\ req[r].domain \in DOMAIN mockEnrichmentData) =>
             req[r].zoom = mockEnrichmentData[req[r].domain])
  /\ [][\A r \in Req :
          (CompanyResume(r) /\ req[r].domain \in DOMAIN mockEnrichmentData) =>
             cache'[CompanyKey(req[r].domain)] =
               [value |-> mockEnrichmentData[req[r].domain],
                expiry |-> now + 86400000, createdAt |-> now]]_vars

\* a dataset profile is returned after a miss while another domain's profile is cached
C9_Witness ==
  /\ last.op = "enrichCompanyData"
  /\ last.domain = "google.com"
  /\ last.looked
  /\ last.result.company_name = "Google LLC"
  /\ CompanyKey("microsoft.com") \in DOMAIN cache

WithoutEmployees(result) ==
  [result EXCEPT !.data.zoominfo_data.employees = 0]

----------------------------------------------------------------------------
(* Properties of the cache API *)

\* C5: for an entry written by set(key, v, t) at time s and not overwritten, deleted or
\* cleared since, get(key) returns v and has(key) returns true at every time up to and
\* including s + t, and get(key) returns absent and has(key) false strictly after s + t.
C5_TtlCorrect ==
  (last.op \in {"get", "has"} /\ last.key \in DOMAIN written) =>
     LET w == written[last.key]
     IN IF now <= w.at + w.ttl * 1000
          THEN IF last.op = "get" THEN last.result = w.value
                                  ELSE last.result = BoolValue(TRUE)
          ELSE IF last.op = "get" THEN last.result = UNDEFINED
                                  ELSE last.result = BoolValue(FALSE)

\* has(key) answers true exactly at the expiry time of an entry written earlier
C5_Witness ==
  /\ last.op = "has"
  /\ last.key \in DOMAIN written
  /\ written[last.key].ttl > 0
  /\ now = written[last.key].at + written[last.key].ttl * 1000
  /\ last.result = BoolValue(TRUE)

\* C18: get(key) and has(key) on an entry that is present but expired (now > expiry)
\* remove that entry from the cache map, so that totalEntries decreases by one, return
\* absent (get) or false (has), and remove or change no other entry.
C18_LazyExpiry ==
  [][\A k \in ApiKeys :
       ((ApiGet(k) \/ ApiHas(k)) /\ k \in DOMAIN cache /\ now > cache[k].expiry) =>
          /\ k \notin DOMAIN cache'
          /\ GetStats(cache', now').totalEntries = GetStats(cache, now).totalEntries - 1
          /\ last'.result = (IF last'.op = "get" THEN UNDEFINED ELSE BoolValue(FALSE))
          /\ \A x \in DOMAIN cache \ {k} : x \in DOMAIN cache' /\ cache'[x] = cache[x]]_vars

\* has(key) has removed the expired entry of its key and left another expired entry
C18_Witness ==
  /\ last.op = "has"
  /\ last.result = BoolValue(FALSE)
  /\ last.key \in DOMAIN written
  /\ last.key \notin DOMAIN cache
  /\ \E t \in timers : t.key = last.key
  /\ \E x \in DOMAIN cache : now > cache[x].expiry

\* C20: clear() returns the number of entries it removed, which is the number of
\* entries, live and expired, that the cache held immediately before the call.
C20_ClearReturnsCount ==
  [][ApiClear =>
       last'.result = [kind |-> "number", n |-> Cardinality(DOMAIN cache)]]_vars

\* C13: every entry stored in the cache has expiry > createdAt, for every ttlSeconds
\* passed to set: a set with a zero or negative ttlSeconds fails with an error and
\* stores nothing.
C13_PositiveLifetime ==
  /\ [](\A k \in DOMAIN cache : cache[k].expiry > cache[k].createdAt)
  /\ [][\A k \in ApiKeys, v \in ApiValues, ttlSeconds \in ApiTtls :
          (ApiSet(k, v, ttlSeconds) /\ ttlSeconds <= 0) =>
             /\ cache' = cache
             /\ last'.result.kind = "error"]_vars

----------------------------------------------------------------------------
(* Capacity and clearing of the cache under the enrichment pipeline *)

\* C12: in every reachable state the number of entries in the cache map is at most
\* MAX_ENTRIES, for any sequence of set operations.
C12_Bounded == Cardinality(DOMAIN cache) <= MAX_ENTRIES

\* the key written by the set of a suspended request when it resumes
SetKey(r) ==
  IF req[r].pc = "latency" THEN CompanyKey(req[r].domain) ELSE IpKey(req[r].ip)

\* C19 (as claimed): the eviction pass of set runs before the insert exactly when the
\* number of live (unexpired) entries is at or above MAX_ENTRIES; when it runs it removes
\* every entry expired at that moment and no live entry, and set then always inserts.
C19_SweepWhenLiveAtMax ==
  [][\A r \in Req :
       (CompanyResume(r) \/ EnrichIPResume(r)) =>
          /\ SetKey(r) \in DOMAIN cache'
          /\ cache'[SetKey(r)].createdAt = now
          /\ \A x \in DOMAIN cache \ {SetKey(r)} :
               IF GetStats(cache, now).activeEntries >= MAX_ENTRIES /\ now > cache[x].expiry
                 THEN x \notin DOMAIN cache'
                 ELSE x \in DOMAIN cache' /\ cache'[x] = cache[x]]_vars

\* C19 (amended): the eviction pass of set runs before the insert exactly when the
\* number of entries in the map, live and expired together, is at or above MAX_ENTRIES;
\* when it runs it removes every entry expired at that moment and no live entry, and set
\* then always inserts the new entry, also when the pass freed nothing.
C19_SweepWhenTotalAtMax ==
  [][\A r \in Req :
       (CompanyResume(r) \/ EnrichIPResume(r)) =>
          /\ SetKey(r) \in DOMAIN cache'
          /\ cache'[SetKey(r)].createdAt = now
          /\ \A x \in DOMAIN cache \ {SetKey(r)} :
               IF GetStats(cache, now).totalEntries >= MAX_ENTRIES /\ now > cache[x].expiry
                 THEN x \notin DOMAIN cache'
                 ELSE x \in DOMAIN cache' /\ cache'[x] = cache[x]]_vars

\* a set found the map full with fewer live entries than MAX_ENTRIES and swept the
\* expired sentinel, whose deletion callback is still pending
C19_Witness ==
  /\ EnrichIPReturned
  /\ ~last.hit
  /\ last.ip = "204.79.197.200"
  /\ IpKey("198.51.100.7") \in DOMAIN cache
  /\ CompanyKey("initech.example") \notin DOMAIN cache
  /\ \E t \in timers : t.key = CompanyKey("initech.example") /\ t.due < now
  /\ GetStats(cache, now).totalEntries = MAX_ENTRIES

\* C11 (as claimed): getStats().totalEntries read after a clear is 0, whatever the cache
\* held before, also while enrichIP requests that passed their cache check before the
\* clear are still in flight: as long as no new request starts, the count stays 0.
C11_EmptyAfterClear ==
  /\ [](last.op = "clear" => GetStats(cache, now).totalEntries = 0)
  /\ [][(last.op = "clear" /\ calls' = calls) =>
          GetStats(cache', now').totalEntries = 0]_vars

\* C11 (amended): getStats().totalEntries read right after a clear is 0, whatever the
\* cache held before and whatever requests are in flight; a request that passed its cache
\* check before the clear and is suspended writes its entries when it resumes, and only
\* such a write (or a new request) makes the count positive again.
C11_EmptyUntilResume ==
  /\ [](last.op = "clear" => GetStats(cache, now).totalEntries = 0)
  /\ [][(last.op = "clear" /\ calls' = calls /\ GetStats(cache', now').totalEntries # 0) =>
          \E r \in Req :
            /\ req[r].pc \in {"latency", "resume"}
            /\ CompanyResume(r) \/ EnrichIPResume(r)
            /\ DOMAIN cache' = {SetKey(r)}]_vars

\* the cache was cleared while it held entries and an enrichIP request was suspended
C11_Witness ==
  /\ last.op = "clear"
  /\ GetStats(cache, now).totalEntries = 0
  /\ timers # {}
  /\ \E r \in Req : req[r].op = "enrichIP" /\ req[r].pc = "resume"

----------------------------------------------------------------------------
(* POST /track : validation, enrichment, persistence of the visitor record *)

NumberValue(n) == [kind |-> "number", n |-> n]

\* a JavaScript string: its text, and the same text character by character
StringValue(text, chars) == [kind |-> "string", text |-> text, chars |-> chars]

\* !v
Falsy(v) ==
  \/ v.kind \in {"undefined", "null"}
  \/ v.kind = "number" /\ v.n = 0
  \/ v.kind = "string" /\ v.chars = <<>>

WhiteSpace == {" ", "\n"}

\* String.prototype.trim
RECURSIVE TrimStart(_)
TrimStart(s) ==
  IF s # <<>> /\ Head(s) \in WhiteSpace THEN TrimStart(Tail(s)) ELSE s

RECURSIVE TrimEnd(_)
TrimEnd(s) ==
  IF s # <<>> /\ s[Len(s)] \in WhiteSpace THEN TrimEnd(SubSeq(s, 1, Len(s) - 1)) ELSE s

Trim(s) == TrimEnd(TrimStart(s))

\* validateRequiredFields(req.body, ["ipAddress"]).isValid
validateRequiredFields(body) ==
  ~(\/ Falsy(body.ipAddress)
    \/ body.ipAddress.kind = "string" /\ Trim(body.ipAddress.chars) = <<>>)

Digits == {"0", "1", "2", "3", "4", "5", "6", "7", "8", "9"}

\* 25[0-5]|2[0-4][0-9]|[01]?[0-9][0-9]?
OctetMatch(s) ==
  \/ Len(s) = 1 /\ s[1] \in Digits
  \/ Len(s) = 2 /\ s[1] \in Digits /\ s[2] \in Digits
  \/ Len(s) = 3 /\ s[1] \in {"0", "1"} /\ s[2] \in Digits /\ s[3] \in Digits
  \/ Len(s) = 3 /\ s[1] = "2" /\ s[2] \in {"0", "1", "2", "3", "4"} /\ s[3] \in Digits
  \/ Len(s) = 3 /\ s[1] = "2" /\ s[2] = "5" /\ s[3] \in {"0", "1", "2", "3", "4", "5"}

\* the segments of s between dots
RECURSIVE SplitDots(_, _)
SplitDots(s, seg) ==
  IF s = <<>> THEN <<seg>>
  ELSE IF Head(s) = "." THEN <<seg>> \o SplitDots(Tail(s), <<>>)
  ELSE SplitDots(Tail(s), Append(seg, Head(s)))

\* ipRegex.test(ip) : ^(octet\.){3}octet$
IpRegexTest(s) ==
  LET parts == SplitDots(s, <<>>)
  IN Len(parts) = 4 /\ \A i \in 1 .. 4 : OctetMatch(parts[i])

\* validateIPAddress(ip).isValid
validateIPAddress(ip) ==
  /\ ~Falsy(ip)
  /\ ip.kind = "string"
  /\ IpRegexTest(ip.chars)

\* mutant: the handler checks that the field is a string, not its format
TrackAccepts_NoFormat(body) ==
  validateRequiredFields(body) /\ body.ipAddress.kind = "string"

\* the two validations of the handler, in its order
TrackAccepts(body) == validateRequiredFields(body) /\ validateIPAddress(body.ipAddress)

\* the ipAddress values of the exploration
ValidIpValues ==
  { StringValue("204.79.197.200", <<"2","0","4",".","7","9",".","1","9","7",".","2","0","0">>),
    StringValue("198.51.100.7", <<"1","9","8",".","5","1",".","1","0","0",".","7">>),
    StringValue("125.20.250.6", <<"1","2","5",".","2","0",".","2","5","0",".","6">>),
    StringValue("1.2.3.4", <<"1",".","2",".","3",".","4">>) }

InvalidIpValues ==
  { UNDEFINED, NULL, NumberValue(0), NumberValue(16909060),
    StringValue("", <<>>),
    StringValue(" ", <<" ">>),
    StringValue("1.2.3", <<"1",".","2",".","3">>),
    StringValue("1.2.3.4.5", <<"1",".","2",".","3",".","4",".","5">>),
    StringValue("256.1.1.1", <<"2","5","6",".","1",".","1",".","1">>),
    StringValue("1.2.3.4\n", <<"1",".","2",".","3",".","4","\n">>),
    StringValue(" 1.2.3.4", <<" ","1",".","2",".","3",".","4">>),
    StringValue("1..2.3", <<"1",".",".","2",".","3">>),
    StringValue("example.com", <<"e","x","a","m","p","l","e",".","c","o","m">>) }

\* req.body and req.user.userId of a track request
TrackBody(ipAddress, extras) ==
  [ipAddress |-> ipAddress,
   sessionId |-> IF extras THEN StringValue("s-1", <<"s","-","1">>) ELSE UNDEFINED,
   pageUrl |-> IF extras THEN StringValue("/pricing", <<"/","p","r","i","c","i","n","g">>)
                         ELSE NULL,
   timestamp |-> IF extras THEN NumberValue(1700000000) ELSE UNDEFINED,
   userId |-> "u-1"]

Bodies ==
  {TrackBody(v, FALSE) : v \in ValidIpValues \cup InvalidIpValues}
    \cup {TrackBody(v, TRUE) : v \in {x \in ValidIpValues : x.text \in {"204.79.197.200", "1.2.3.4"}}}
    \cup {TrackBody(UNDEFINED, TRUE)}

\* the bodies that pass the handler's validations
AcceptedBodies == {body \in Bodies : TrackAccepts(body)}

\* a field is copied only when it is neither undefined nor null
Given(v) == IF v # UNDEFINED /\ v # NULL THEN v ELSE UNDEFINED

\* enrichedData: the enrichment data with the fields of the request (UNDEFINED: not set)
EnrichedData(data, body, t) ==
  [ip |-> data.ip, asn |-> data.asn, as_name |-> data.as_name,
   as_domain |-> data.as_domain, type |-> data.type,
   zoominfo_data |-> data.zoominfo_data,
   created_at |-> t, tracked_by |-> body.userId,
   sessionId |-> Given(body.sessionId), pageUrl |-> Given(body.pageUrl),
   timestamp |-> Given(body.timestamp)]

BadRequest == [status |-> 400, error |-> "Bad Request"]

\* mutant: a filtered result is persisted like a success
TrackAfter_SaveAll(result, body, n) ==
  LET none == [ip |-> "", asn |-> "", as_name |-> "", as_domain |-> "", type |-> "",
               zoominfo_data |-> UNDEFINED]
      data == IF result.status = "filtered" THEN none ELSE result.data
  IN /\ saving' = saving \cup {[n |-> n, doc |-> EnrichedData(data, body, now)]}
     /\ response' = NoResponse

\* the handler after enrichIP returned: respond (filtered) or start the add (success)
TrackAfter(result, body, n) ==
  IF result.status = "filtered"
    THEN /\ saving' = saving
         /\ response' = [status |-> 200, body |-> result]
    ELSE /\ saving' = saving \cup {[n |-> n, doc |-> EnrichedData(result.data, body, now)]}
         /\ response' = NoResponse

\* the request fails a validation: 400, nothing else happens
TrackReject(body) ==
  /\ calls < MaxCalls
  /\ body \notin AcceptedBodies
  /\ calls' = calls + 1
  /\ response' = BadRequest
  /\ last' = Idle
  /\ UNCHANGED <<now, cache, timers, req, written, ticks, trackVars>>

\* the request passes the validations: enrichIP runs up to its return or its await
TrackStart(r, body) ==
  /\ body \in AcceptedBodies
  /\ EnrichIPStart(r, body.ipAddress.text)
  /\ UNCHANGED visitors
  /\ IF req'[r].pc = "idle"
       THEN /\ TrackAfter(last'.result, body, calls')
            /\ track' = track
       ELSE /\ track' = [track EXCEPT ![r] = [kind |-> "body", body |-> body, n |-> calls']]
            /\ saving' = saving
            /\ response' = NoResponse

\* enrichCompanyData resumes inside the enrichIP call of a track request
TrackCompanyResume(r) ==
  /\ CompanyResume(r)
  /\ response' = NoResponse
  /\ UNCHANGED trackVars

\* mutant: the handler assigns the fields of the request to the data of the result
\* itself, which is the object enrichIP has put in the cache
TrackEnrichResume_InPlace(r) ==
  /\ req[r].pc = "resume"
  /\ \E employees \in EmployeeEstimates :
       LET key == IpKey(req[r].ip)
           result == EnrichIPResult(req[r], employees)
           doc == EnrichedData(result.data, track[r].body, now)
           tracked == [status |-> "success", data |-> doc]
       IN /\ cache' = CacheSet(cache, key, tracked, SUCCESS_TTL, now)
          /\ timers' = timers \cup {TimerOf(key, SUCCESS_TTL, now)}
          /\ Return(r, [req[r] EXCEPT !.result = tracked])
          /\ saving' = saving \cup {[n |-> track[r].n, doc |-> doc]}
  /\ response' = NoResponse
  /\ track' = [track EXCEPT ![r] = NoBody]
  /\ UNCHANGED <<now, written, calls, ticks, visitors>>

\* enrichIP resumes and returns to the handler, which starts the add
TrackEnrichResume(r) ==
  /\ EnrichIPResume(r)
  /\ TrackAfter(last'.result, track[r].body, track[r].n)
  /\ track' = [track EXCEPT ![r] = NoBody]
  /\ UNCHANGED visitors

\* db.collection("visitor_data").add resolves (the store accepts every document):
\* the document is stored under a fresh id and the handler responds
TrackSaved(item) ==
  /\ item \in saving
  /\ saving' = saving \ {item}
  /\ visitors' = visitors \cup {[id |-> item.n, doc |-> item.doc]}
  /\ response' = [status |-> 200,
                  body |-> [status |-> "success", data |-> item.doc, id |-> item.n]]
  /\ last' = Idle
  /\ UNCHANGED <<now, cache, timers, req, written, calls, ticks, track>>

\* the clock advances between requests: while none is in flight
TrackTick(d) ==
  /\ ticks < MaxTrackTicks
  /\ \A r \in Req : req[r].pc = "idle"
  /\ saving = {}
  /\ Tick(d)
  /\ response' = NoResponse
  /\ UNCHANGED trackVars

TrackTimerFire(t) ==
  /\ TimerFire(t)
  /\ response' = NoResponse
  /\ UNCHANGED trackVars

NextTrack ==
  \/ \E body \in Bodies \ AcceptedBodies :
       TrackReject(body) /\ UNCHANGED <<limiterVars, loginVars>>
  \/ \E r \in Req, body \in AcceptedBodies :
       TrackStart(r, body) /\ UNCHANGED <<limiterVars, loginVars>>
  \/ \E r \in Req : TrackCompanyResume(r) /\ UNCHANGED <<limiterVars, loginVars>>
  \/ \E r \in Req : TrackEnrichResume(r) /\ UNCHANGED <<limiterVars, loginVars>>
  \/ \E item \in saving : TrackSaved(item) /\ UNCHANGED <<limiterVars, loginVars>>
  \/ \E d \in TickSteps : TrackTick(d) /\ UNCHANGED <<limiterVars, loginVars>>
  \/ \E t \in timers : TrackTimerFire(t) /\ UNCHANGED <<limiterVars, loginVars>>

SpecTrack == Init /\ [][NextTrack]_vars

\* the bodies whose ipAddress is missing or fails validateIPAddress
IllFormedBodies ==
  {body \in Bodies : body.ipAddress = UNDEFINED \/ ~validateIPAddress(body.ipAddress)}

\* C14: a track request whose ipAddress is missing or fails validateIPAddress is answered
\* with 400 before the enrichment core is reached: enrichIP is not invoked, the cache is
\* unchanged and no visitor record is written; so only well-formed addresses get a key.
C14_RejectedBeforeCore ==
  /\ [](\A k \in DOMAIN cache :
          k[1] = "ip_enrichment_" =>
            k[2] \in {"204.79.197.200", "198.51.100.7", "125.20.250.6", "1.2.3.4"})
  /\ [][\A body \in IllFormedBodies, r \in Req :
          (TrackReject(body) \/ TrackStart(r, body)) =>
             /\ response'.status = 400
             /\ cache' = cache /\ timers' = timers
             /\ req' = req /\ last'.op # "enrichIP"
             /\ visitors' = visitors /\ saving' = saving /\ track' = track]_vars

\* a request was rejected while the cache held entries and another request was in flight
C14_Witness ==
  /\ response = BadRequest
  /\ cache # EmptyCache
  /\ \E r \in Req : req[r].pc = "resume" /\ track[r] # NoBody

\* the documents handed to the store or stored, by request
Persisted == saving \cup {[n |-> v.id, doc |-> v.doc] : v \in visitors}

----------------------------------------------------------------------------
(* rateLimiter : the fixed-window request counter in front of every route *)

WINDOW_MS == 15 * 60 * 1000

\* the values of process.env.NODE_ENV and of req.ip explored
Environments == {"development", "production"}
Clients == {"10.0.0.1", "10.0.0.2"}

\* requests seen by the limiter in one behaviour
MaxHits == 2 * MAX_REQUESTS

TooManyRequests(retryAfter) ==
  [status |-> 429, error |-> "Too Many Requests", retryAfter |-> retryAfter]

\* Math.ceil(ms / 1000) for ms >= 0
CeilSeconds(ms) == (ms + 999) \div 1000

\* requests.set(clientId, {count: 1, resetTime: now + WINDOW_MS})
NewWindow(clientId) ==
  [c \in DOMAIN requests \cup {clientId} |->
     IF c = clientId THEN [count |-> 1, resetTime |-> now + WINDOW_MS] ELSE requests[c]]

\* the request is passed to the handlers: next()
Admit(clientId) ==
  /\ admitted' = admitted \cup {[client |-> clientId, at |-> now, n |-> calls']}
  /\ response' = NoResponse

\* the factory of the middleware runs once, when the module is loaded
LoadLimiter(env) ==
  /\ mode = "unloaded"
  /\ mode' = IF env = "development" THEN "skip" ELSE "limit"
  /\ response' = NoResponse
  /\ UNCHANGED <<now, calls, ticks, requests, admitted>>

\* the middleware handles a request of the client
RateLimiter(clientId) ==
  /\ mode # "unloaded"
  /\ calls < MaxHits
  /\ calls' = calls + 1
  /\ IF mode = "skip"
       THEN Admit(clientId) /\ requests' = requests
     ELSE IF clientId \notin DOMAIN requests
       THEN Admit(clientId) /\ requests' = NewWindow(clientId)
     ELSE IF now > requests[clientId].resetTime
       THEN Admit(clientId) /\ requests' = NewWindow(clientId)
     ELSE IF requests[clientId].count >= MAX_REQUESTS
       THEN /\ response' = TooManyRequests(CeilSeconds(requests[clientId].resetTime - now))
            /\ UNCHANGED <<requests, admitted>>
     ELSE /\ Admit(clientId)
          /\ requests' = [requests EXCEPT ![clientId].count = @ + 1]
  /\ UNCHANGED <<now, ticks, mode>>

\* the clock advances by a millisecond or by the length of the window
LimiterSteps == {1, WINDOW_MS}

LimiterTick(d) ==
  /\ ticks < MaxTicks
  /\ now' = now + d
  /\ ticks' = ticks + 1
  /\ response' = NoResponse
  /\ UNCHANGED <<calls, mode, requests, admitted>>

NextLimiter ==
  \/ \E env \in Environments : LoadLimiter(env) /\ UNCHANGED <<coreVars, trackVars, loginVars>>
  \/ \E clientId \in Clients : RateLimiter(clientId) /\ UNCHANGED <<coreVars, trackVars, loginVars>>
  \/ \E d \in LimiterSteps : LimiterTick(d) /\ UNCHANGED <<coreVars, trackVars, loginVars>>

SpecLimiter == Init /\ [][NextLimiter]_vars

\* the requests of the client admitted in the interval [from, from + WINDOW_MS)
AdmittedIn(clientId, from) ==
  {a \in admitted : a.client = clientId /\ a.at >= from /\ a.at < from + WINDOW_MS}

\* C16: outside development mode, for each client at most MAX_REQUESTS requests are
\* admitted in any interval of 15 minutes, and a request arriving when the 15 minutes
\* before it already hold MAX_REQUESTS admitted requests is answered with 429 and is not
\* passed to the handlers.
C16_AtMostMaxPerInterval ==
  /\ [](mode = "limit" =>
          \A a \in admitted : Cardinality(AdmittedIn(a.client, a.at)) <= MAX_REQUESTS)
  /\ [][\A c \in Clients :
          (/\ mode = "limit"
           /\ RateLimiter(c)
           /\ Cardinality(AdmittedIn(c, now - WINDOW_MS + 1)) >= MAX_REQUESTS) =>
             /\ response'.status = 429
             /\ admitted' = admitted]_vars

----------------------------------------------------------------------------
(* UserService.authenticateUser : password check and account lockout *)

maxLoginAttempts == 5

ALLOWED_EMAIL_DOMAIN == "consultadd.com"

\* an e-mail address local@domain; the addresses explored hold no blank and no second @
Email(text, local, domain) == [text |-> text, local |-> local, domain |-> domain]

LoginEmails ==
  { Email("ada@consultadd.com", "ada", "consultadd.com"),
    Email("bob@consultadd.com", "bob", "consultadd.com"),
    Email("ada@example.org", "ada", "example.org"),
    Email("", "", "") }

\* the password stored for every account (bcrypt.compare succeeds on it alone)
Password == "correct horse"
LoginPasswords == {Password, "guess", ""}

\* validateEmail(email, allowedDomain).isValid
validateEmail(email) ==
  /\ email.text # ""
  /\ email.local # ""
  /\ email.domain = ALLOWED_EMAIL_DOMAIN

\* login calls in one behaviour
MaxLogins == maxLoginAttempts + 1

LoginFailure(message) == [status |-> 401, success |-> FALSE, message |-> message]
LoginSuccess(email) == [status |-> 200, success |-> TRUE, message |-> email]

\* the call in slot r returns
LoginReturn(r, result) ==
  /\ logins' = [logins EXCEPT ![r] = NoLogin]
  /\ response' = result

\* authenticateUser up to its return (validation) or its await of the users query
LoginStart(r, email, password) ==
  /\ calls < MaxLogins
  /\ logins[r].pc = "idle"
  /\ calls' = calls + 1
  /\ IF email.text = "" \/ password = ""
       THEN LoginReturn(r, LoginFailure("Missing required fields"))
     ELSE IF ~validateEmail(email)
       THEN LoginReturn(r, LoginFailure("Invalid email"))
     ELSE /\ logins' = [logins EXCEPT ![r] =
                          [pc |-> "query", email |-> email.text, password |-> password]]
          /\ response' = NoResponse
  /\ UNCHANGED <<now, ticks, users, checked>>

\* the query resolves: the document is read and the lockout is decided on it
LoginQuery(r) ==
  /\ logins[r].pc = "query"
  /\ IF logins[r].email \notin DOMAIN users
       THEN LoginReturn(r, LoginFailure("Invalid email or password"))
     ELSE LET userData == users[logins[r].email]
          IN IF ~userData.isActive
               THEN LoginReturn(r, LoginFailure("Account is deactivated. Please contact admin."))
             ELSE IF userData.loginAttempts >= maxLoginAttempts
               THEN LoginReturn(r, LoginFailure("Account temporarily locked"))
             ELSE /\ logins' = [logins EXCEPT ![r] =
                                  [pc |-> "compare", email |-> logins[r].email,
                                   password |-> logins[r].password,
                                   loginAttempts |-> userData.loginAttempts]]
                  /\ response' = NoResponse
  /\ UNCHANGED <<now, calls, ticks, users, checked>>

\* bcrypt.compare resolves: the password was checked, the update of the document is sent
LoginCompare(r) ==
  /\ logins[r].pc = "compare"
  /\ LET isPasswordValid == logins[r].password = Password
     IN /\ logins' = [logins EXCEPT ![r] =
                        [pc |-> "update", email |-> logins[r].email,
                         isPasswordValid |-> isPasswordValid,
                         loginAttempts |-> IF isPasswordValid THEN 0
                                           ELSE logins[r].loginAttempts + 1]]
        /\ checked' = [checked EXCEPT ![logins[r].email] =
                         IF isPasswordValid THEN 0 ELSE @ + 1]
  /\ response' = NoResponse
  /\ UNCHANGED <<now, calls, ticks, users>>

\* the update resolves: the counter read earlier plus one, or zero, is written; return
LoginUpdate(r) ==
  /\ logins[r].pc = "update"
  /\ users' = [users EXCEPT ![logins[r].email].loginAttempts = logins[r].loginAttempts]
  /\ LoginReturn(r, IF logins[r].isPasswordValid
                      THEN LoginSuccess(logins[r].email)
                      ELSE LoginFailure("Invalid email or password"))
  /\ UNCHANGED <<now, calls, ticks, checked>>

NextLogin ==
  \/ \E r \in Req, email \in LoginEmails, password \in LoginPasswords :
       LoginStart(r, email, password) /\ UNCHANGED <<coreVars, trackVars, limiterVars>>
  \/ \E r \in Req : LoginQuery(r) /\ UNCHANGED <<coreVars, trackVars, limiterVars>>
  \/ \E r \in Req : LoginCompare(r) /\ UNCHANGED <<coreVars, trackVars, limiterVars>>
  \/ \E r \in Req : LoginUpdate(r) /\ UNCHANGED <<coreVars, trackVars, limiterVars>>

SpecLogin == Init /\ [][NextLogin]_vars

\* C17: between two successful logins of an account at most maxLoginAttempts wrong
\* passwords are checked against it, and once its loginAttempts counter has reached
\* maxLoginAttempts no authenticateUser call for it gets its password checked, also
\* when login requests for the account run concurrently.
C17_Lockout ==
  /\ [](\A e \in Accounts : checked[e] <= maxLoginAttempts)
  /\ [][\A r \in Req :
          LoginCompare(r) => users[logins[r].email].loginAttempts < maxLoginAttempts]_vars

----------------------------------------------------------------------------
(* Which records are enriched: enrichIP over the records of every type *)

\* an IP of every type, and an IP absent from the dataset
ClassifiedIPs == {"125.20.250.6", "52.95.110.1", "204.79.197.200", "128.143.0.0", "1.2.3.4"}

NextClassify ==
  \/ \E d \in TickSteps : Tick(d) /\ Aside
  \/ \E r \in Req, ip \in ClassifiedIPs : EnrichIPStart(r, ip) /\ Aside
  \/ \E r \in Req : CompanyResume(r) /\ Aside
  \/ \E r \in Req : EnrichIPResume(r) /\ Aside
  \/ \E t \in timers : TimerFire(t) /\ Aside

SpecClassify == Init /\ [][NextClassify]_vars

\* the dataset record of the IP has the given type
HasType(ip, type) == ip \in DOMAIN mockIpDatabase /\ mockIpDatabase[ip].type = type

\* C21 (as claimed): enrichIP takes the business path and returns a success result only
\* for an IP whose dataset record has type business: for a record of any other type the
\* company resolver is not invoked and no success result is produced or cached.
C21_OnlyBusinessEnriched ==
  /\ \A r \in Req :
       (req[r].op = "enrichIP" /\ req[r].pc \in {"latency", "resume"}) =>
          HasType(req[r].ip, "business")
  /\ (EnrichIPReturned /\ last.result.status = "success") => HasType(last.ip, "business")
  /\ \A ip \in ClassifiedIPs :
       (IpKey(ip) \in DOMAIN cache /\ cache[IpKey(ip)].value.status = "success") =>
          HasType(ip, "business")

\* the dataset holds a record of the IP and its type is neither isp nor hosting
Enriched(ip) == ip \in DOMAIN mockIpDatabase /\ mockIpDatabase[ip].type \notin {"isp", "hosting"}

\* C21 (amended): enrichIP takes the enrichment path and returns a success result exactly
\* for an IP whose dataset record has a type other than isp and hosting: for an isp or
\* hosting record (as for an absent IP) the company resolver is not invoked and no success
\* result is produced or cached, and a record of any other type (business, education) is
\* resolved and answered with a success result.
C21_AllButIspHostingEnriched ==
  /\ \A r \in Req :
       (req[r].op = "enrichIP" /\ req[r].pc \in {"latency", "resume"}) => Enriched(req[r].ip)
  /\ EnrichIPReturned => (last.result.status = "success" <=> Enriched(last.ip))
  /\ \A ip \in ClassifiedIPs :
       IpKey(ip) \in DOMAIN cache =>
          (cache[IpKey(ip)].value.status = "success" <=> Enriched(ip))

\* an education IP was resolved and answered with a success result, which is cached
C21_Witness ==
  /\ EnrichIPReturned
  /\ ~last.hit
  /\ last.ip = "128.143.0.0"
  /\ last.result.status = "success"
  /\ last.result.data.type = "education"
  /\ cache[last.key].value = last.result

----------------------------------------------------------------------------
(* The statistics snapshot *)

\* C22: getStats() is read-only: it leaves the cache map unchanged (it removes no entry,
\* not even expired ones, and changes no value or expiry), so two getStats() calls at the
\* same time with no operation between them return the same snapshot.
C22_StatsReadOnly ==
  /\ [][ApiGetStats => (cache' = cache /\ timers' = timers)]_vars
  /\ [](last.op = "getStats" =>
          /\ last.result.totalEntries = Cardinality(DOMAIN cache)
          /\ {e.key : e \in last.result.entries} = DOMAIN cache)
  /\ [][(last.op = "getStats" /\ ApiGetStats) => last'.result = last.result]_vars

\* the second of two successive getStats calls found the expired entry the first one saw
C22_Witness ==
  /\ last.op = "getStats"
  /\ last.repeat
  /\ last.result.expiredEntries = 1
  /\ \E k \in DOMAIN cache : now > cache[k].expiry

\* C28: in every snapshot returned by getStats(), totalEntries = activeEntries +
\* expiredEntries, activeEntries counts exactly the entries with now <= expiry, and each
\* per-entry expired flag is true exactly for the entries counted in expiredEntries.
C28_StatsConsistent ==
  last.op = "getStats" =>
    LET s == last.result
    IN /\ s.totalEntries = s.activeEntries + s.expiredEntries
       /\ s.activeEntries = Cardinality({k \in DOMAIN cache : now <= cache[k].expiry})
       /\ s.expiredEntries = Cardinality({e \in s.entries : e.expired})
       /\ \A e \in s.entries : e.expired <=> now > cache[e.key].expiry

\* a snapshot counts one entry that is exactly at its expiry time and one that is past it
C28_Witness ==
  /\ last.op = "getStats"
  /\ last.result.activeEntries = 1
  /\ last.result.expiredEntries = 1
  /\ \E k \in DOMAIN cache : now = cache[k].expiry

----------------------------------------------------------------------------
(* cacheService.getOrSet : read, compute on a miss, write *)

\* the values computeFn resolves with, and the TTLs passed
ComputeValues == {UNDEFINED, NULL, NumberValue(0), IspResult}
GetOrSetTtls == {60 * 60, DEFAULT_TTL}

\* a getOrSet call: computed is true once computeFn was invoked; repeat: started right
\* after another getOrSet for the same key returned
GetOrSetCall(k, ttlSeconds) ==
  [pc |-> "compute", op |-> "getOrSet", key |-> k, ttl |-> ttlSeconds,
   result |-> UNDEFINED, hit |-> FALSE, computed |-> FALSE,
   repeat |-> (last.op = "getOrSet" /\ last.key = k)]

\* getOrSet up to its return (the value read is not undefined) or its await of computeFn()
GetOrSetStart(r, k, ttlSeconds) ==
  /\ calls < MaxOps
  /\ req[r].pc = "idle"
  /\ calls' = calls + 1
  /\ LET cached == CacheGetValue(cache, k, now)
         call == GetOrSetCall(k, ttlSeconds)
     IN /\ cache' = CacheAfterGet(cache, k, now)
        /\ IF cached # UNDEFINED
             THEN /\ req' = req
                  /\ last' = [call EXCEPT !.pc = "done", !.result = cached, !.hit = TRUE]
             ELSE /\ req' = [req EXCEPT ![r] = [call EXCEPT !.computed = TRUE]]
                  /\ last' = Idle
  /\ UNCHANGED <<now, timers, written, ticks>>

\* computeFn resolves with value: set(key, value, ttlSeconds), return value
GetOrSetResume(r, value) ==
  /\ req[r].pc = "compute"
  /\ cache' = CacheSet(cache, req[r].key, value, req[r].ttl, now)
  /\ timers' = timers \cup {TimerOf(req[r].key, req[r].ttl, now)}
  /\ req' = [req EXCEPT ![r] = Idle]
  /\ last' = [req[r] EXCEPT !.pc = "done", !.result = value]
  /\ UNCHANGED <<now, written, calls, ticks>>

\* computeFn rejects: getOrSet rejects with the same error and stores nothing
GetOrSetThrow(r) ==
  /\ req[r].pc = "compute"
  /\ req' = [req EXCEPT ![r] = Idle]
  /\ last' = [req[r] EXCEPT !.pc = "done", !.result = [kind |-> "error"]]
  /\ UNCHANGED <<now, cache, timers, written, calls, ticks>>

NextGetOrSet ==
  \/ \E d \in TickSteps : Tick(d) /\ Aside
  \/ \E r \in Req, k \in ApiKeys, ttlSeconds \in GetOrSetTtls :
       GetOrSetStart(r, k, ttlSeconds) /\ Aside
  \/ \E r \in Req, value \in ComputeValues : GetOrSetResume(r, value) /\ Aside
  \/ \E r \in Req : GetOrSetThrow(r) /\ Aside
  \/ \E t \in timers : TimerFire(t) /\ Aside

SpecGetOrSet == Init /\ [][NextGetOrSet]_vars

\* C23: getOrSet(key, computeFn, ttl): when a live entry exists for key it returns that
\* entry's value without invoking computeFn; otherwise it invokes computeFn exactly once
\* and, when it returns, the value stored under key equals the value returned to the
\* caller, so that a following getOrSet(key, ...) before expiry returns that value without
\* invoking computeFn again, for every value computeFn can return.
C23_GetOrSet ==
  /\ [][\A r \in Req, k \in ApiKeys, ttlSeconds \in GetOrSetTtls :
          GetOrSetStart(r, k, ttlSeconds) =>
             IF k \in DOMAIN cache /\ now <= cache[k].expiry
               THEN /\ last'.op = "getOrSet" /\ last'.hit /\ ~last'.computed
                    /\ last'.result = cache[k].value
                    /\ req' = req /\ cache' = cache
               ELSE req'[r].pc = "compute" /\ req'[r].computed]_vars
  /\ [][\A r \in Req, value \in ComputeValues :
          GetOrSetResume(r, value) =>
             /\ last'.result = value
             /\ cache'[req[r].key].value = value
             /\ cache'[req[r].key].expiry = now + req[r].ttl * 1000]_vars

----------------------------------------------------------------------------
(* What the company resolver stores *)

\* the records of the company dataset
DatasetProfiles == {mockEnrichmentData[d] : d \in DOMAIN mockEnrichmentData}

\* C24: a fallback profile is never stored by the company resolver: in every reachable
\* state the value under a company cache key is either a company-dataset record or the
\* no-data sentinel; a fallback profile appears in the cache only inside a success result
\* stored under an IP key.
C24_ResolverStoresDatasetOrSentinel ==
  \A k \in DOMAIN cache :
    k[1] = "company_enrichment_" =>
      \/ cache[k].value = NULL
      \/ cache[k].value \in DatasetProfiles

----------------------------------------------------------------------------
(* The deferred deletion callbacks *)

\* C25: automatic cleanup: every entry written by set is removed from the cache map after
\* its expiry time even if it is never read, overwritten, deleted or cleared again,
\* because the deferred deletion callback scheduled by that set removes it when it fires:
\* the callback of an entry that is still in the map removes it, so an expired entry in
\* the map always has its own callback still pending.
C25_AutomaticCleanup ==
  /\ [][\A t \in timers :
          (TimerFire(t) /\ t.key \in DOMAIN cache /\ cache[t.key].expiry = t.due) =>
             t.key \notin DOMAIN cache']_vars
  /\ [](\A k \in DOMAIN cache :
          now > cache[k].expiry =>
            \E t \in timers : t.key = k /\ t.due = cache[k].expiry)

\* C27: a deferred deletion callback never removes a live entry: when a key is overwritten
\* by a later set (or re-created after delete or clear) with an expiry that has not
\* passed, the callback scheduled by the earlier set leaves the newer entry in place when
\* it fires; a callback deletes only an entry whose own expiry is strictly in the past.
C27_CallbackSparesLive ==
  [][\A t \in timers :
       TimerFire(t) =>
          \A k \in DOMAIN cache :
            IF k = t.key /\ now > cache[k].expiry
              THEN k \notin DOMAIN cache'
              ELSE k \in DOMAIN cache' /\ cache'[k] = cache[k]]_vars

\* the callback of an earlier set has fired after its delay and left the entry that a
\* later set wrote under its key, which is live
C27_Witness ==
  /\ last.op = "callback"
  /\ last.key \in DOMAIN cache
  /\ now <= cache[last.key].expiry
  /\ now > cache[last.key].createdAt
  /\ \E t \in timers : t.key = last.key /\ t.due = cache[last.key].expiry

----------------------------------------------------------------------------
(* Reads of the cache, by its API and by the pipeline, of the entries the pipeline writes *)

\* the IPs whose enrichment writes the keys that the API calls read
ReadIPs == {"1.2.3.4", "198.51.100.7"}

NextReads ==
  \/ \E d \in TickSteps : Tick(d) /\ Aside
  \/ \E k \in ApiKeys : ApiGet(k) /\ Aside
  \/ \E k \in ApiKeys : ApiHas(k) /\ Aside
  \/ \E r \in Req, ip \in ReadIPs : EnrichIPStart(r, ip) /\ Aside
  \/ \E r \in Req : CompanyResume(r) /\ Aside
  \/ \E r \in Req : EnrichIPResume(r) /\ Aside
  \/ \E t \in timers : TimerFire(t) /\ Aside

SpecReads == Init /\ [][NextReads]_vars

\* C30: reads do not extend lifetime: get(key) and has(key) on a live entry leave the
\* whole cache map unchanged (value, createdAt and expiry of every entry), and an enrichIP
\* call served from the cache performs no cache write, so an entry's expiry is fixed when
\* it is written and is not a sliding window.
C30_ReadsKeepExpiry ==
  /\ [][\A k \in ApiKeys :
          ((ApiGet(k) \/ ApiHas(k)) /\ k \in DOMAIN cache /\ now <= cache[k].expiry) =>
             cache' = cache /\ timers' = timers]_vars
  /\ [][\A r \in Req, ip \in IPs :
          (EnrichIPStart(r, ip) /\ last'.op = "enrichIP" /\ last'.hit) =>
             cache' = cache /\ timers' = timers]_vars
  /\ [](\A k \in DOMAIN cache :
          cache[k].expiry - cache[k].createdAt \in {3600000, 86400000})

\* get(key) has returned the verdict that enrichIP stored an hour before and that another
\* read has touched since: the entry still expires one hour after it was written
C30_Witness ==
  /\ last.op = "get"
  /\ last.result = NoDataResult
  /\ now = cache[last.key].createdAt + 3600000
  /\ cache[last.key].expiry = now
  /\ calls = 3

----------------------------------------------------------------------------
(* Concurrent requests for different IPs: two IPs of one domain, one of another *)

PairIPs == {"198.51.100.7", "198.51.100.8", "204.79.197.200"}

NextPair ==
  \/ \E d \in TickSteps : Tick(d) /\ Aside
  \/ \E r \in Req, ip \in PairIPs : EnrichIPStart(r, ip) /\ Aside
  \/ \E r \in Req : CompanyResume(r) /\ Aside
  \/ \E r \in Req : EnrichIPResume(r) /\ Aside
  \/ \E t \in timers : TimerFire(t) /\ Aside

SpecPair == Init /\ [][NextPair]_vars

\* result is what enrichIP(ip) returns when it runs alone, whatever the employee estimate
IsSequentialResult(ip, result) ==
  LET rec == mockIpDatabase[ip]
  IN /\ result.status = "success"
     /\ result.data.ip = ip /\ result.data.asn = rec.asn
     /\ result.data.as_name = rec.as_name /\ result.data.as_domain = rec.as_domain
     /\ result.data.type = rec.type
     /\ IF rec.as_domain \in DOMAIN mockEnrichmentData
          THEN result.data.zoominfo_data = mockEnrichmentData[rec.as_domain]
          ELSE /\ [result.data.zoominfo_data EXCEPT !.employees = 0] =
                    [company_name |-> rec.as_name, domain |-> rec.as_domain,
                     employees |-> 0, industry |-> "Technology",
                     headquarters |-> "Unknown", revenue |-> "N/A",
                     website |-> <<"https://www.", rec.as_domain>>,
                     enrichment_source |-> "fallback"]
               /\ result.data.zoominfo_data.employees \in 100 .. 5099

\* C26: independence of different keys: for two distinct IPs, the result returned by
\* enrichIP(ip1) and the entry cached under ip1's key are the same in every interleaving
\* with a concurrent enrichIP(ip2) as when the two calls run one after the other,
\* including when both IPs map to the same company domain: the result and the entry are
\* those of enrichIP(ip1) running alone, and no step other than the cache write of a
\* request for ip1 changes a live entry under ip1's key.
C26_IndependentKeys ==
  /\ [](EnrichIPReturned =>
          /\ IsSequentialResult(last.ip, last.result)
          /\ cache[last.key].value = last.result)
  /\ [](\A ip \in PairIPs :
          IpKey(ip) \in DOMAIN cache =>
             /\ IsSequentialResult(ip, cache[IpKey(ip)].value)
             /\ cache[IpKey(ip)].expiry = cache[IpKey(ip)].createdAt + 86400000)
  /\ [][\A ip1 \in PairIPs :
          (/\ LiveIpEntry(ip1)
           /\ \A r \in Req : ~(req[r].ip = ip1 /\ req[r].pc = "resume" /\ req'[r].pc = "idle")) =>
             /\ IpKey(ip1) \in DOMAIN cache'
             /\ cache'[IpKey(ip1)] = cache[IpKey(ip1)]]_vars

\* a request has computed and returned its result while a request for another IP of the
\* same domain, which had missed the company cache as well, is still suspended
C26_Witness ==
  /\ EnrichIPReturned
  /\ ~last.hit
  /\ last.ip = "198.51.100.7"
  /\ last.result.data.zoominfo_data.company_name = "Initech"
  /\ \E r \in Req : /\ req[r].op = "enrichIP" /\ req[r].ip = "198.51.100.8"
                    /\ req[r].pc = "resume" /\ req[r].looked

----------------------------------------------------------------------------
(* What the track handler leaves in the cache *)

\* the fields of the data of a success result, as enrichIP builds it
ResultFields == {"ip", "asn", "as_name", "as_domain", "type", "zoominfo_data"}

\* C29: per-request data never enters the cache: handling a track request does not modify
\* the cached enrichment result, so the fields the handler adds for one request
\* (created_at, tracked_by, sessionId, pageUrl, timestamp) never appear in the result
\* enrichIP returns to a later request for the same IP.
C29_RequestDataNotCached ==
  /\ [](\A k \in DOMAIN cache :
          (k[1] = "ip_enrichment_" /\ cache[k].value.status = "success") =>
             DOMAIN cache[k].value.data = ResultFields)
  /\ [](EnrichIPReturned =>
          /\ cache[last.key].value = last.result
          /\ last.result.status = "success" => DOMAIN last.result.data = ResultFields)
  /\ [][\A item \in saving : TrackSaved(item) => cache' = cache]_vars

\* a request is served from the cache the result of an earlier request for the same IP,
\* whose visitor record, with its session, page and timestamp, is stored
C29_Witness ==
  /\ EnrichIPReturned
  /\ last.hit
  /\ last.result.status = "success"
  /\ \E v \in visitors : /\ v.doc.ip = last.ip
                         /\ v.doc.sessionId # UNDEFINED
                         /\ v.doc.timestamp # UNDEFINED

====
